---- MODULE Spec2Model ----
(***************************************************************************)
(* GitScribe: generation of commit messages and pull-request descriptions  *)
(* with a completion service (src/llm.go, src/helper.go), the search for   *)
(* the configuration file (src/helper.go) and main (src/unnamed/part_000). *)
(* Spec is a call of create*Message on its own, SpecConfig the             *)
(* configuration search, SpecMain a run of main from the loaded            *)
(* configuration on.                                                       *)
(*                                                                         *)
(* A text is a sequence of one-character strings, so that the byte-level   *)
(* operations of the code (TrimSpace, Index, HasPrefix, the brace scan,    *)
(* the regular expression, slicing by a byte limit) are modelled on the    *)
(* same units as in the code.  Positions are 0-based as in Go: At(s, i)    *)
(* is s[i] and Slice(s, a, b) is s[a:b].  A long fixed text of the code    *)
(* (a prompt) is one unit named in angle brackets.                         *)
(***************************************************************************)
EXTENDS Integers, Sequences, FiniteSets, TLC

VARIABLES
    mode,               \* "commit": createCommitMessage, "pr": createPRMessage
    input,              \* the diff (commit) or the commit log (pr)
    llmConfig,          \* LLMConfig: [APIKey, EnableQuestions]
    firstLineLimit,     \* the firstLineLimit argument
    pc,                 \* position of the invocation
    template,           \* content of the template file once read
    templateReads,      \* number of ioutil.ReadFile(templatePath) calls
    credentialChecks,   \* number of times config.APIKey was tested
    requests,           \* message lists POSTed to the completion service, in order
    newMessages,        \* the conversation built for the second request
    failures,           \* number of completion requests that failed
    response,           \* the local variable response of GeneratePRMessage
    questionResponses,  \* []QuestionResponse
    prompts,            \* number of questions presented on the console
    lastRead,           \* result of the last reader.ReadString('\n')
    result,             \* (text, err) returned by Generate*Message
    message,            \* (message, err) returned by create*Message
    exchange,           \* the HTTP exchange of the last completion request
    service,            \* which texts the completion service answers with
    flags,              \* the command-line flags of main
    fs,                 \* which configuration files load, and whether the home
                        \* and executable directories can be determined
    tried,              \* configuration locations read by loadConfig, in order
    configFile,         \* what the configuration file that loaded holds
    config,             \* (Config, err) of loadConfigFromPrioritizedLocations
    mainPc,             \* position of main
    tempFile,           \* the temporary message file
    effects             \* what main printed and ran, in order

\* the variables of main and of the configuration search
mainVars == <<service, flags, fs, tried, configFile, config, mainPc, tempFile, effects>>

vars == <<mode, input, llmConfig, firstLineLimit, pc, template, templateReads,
          credentialChecks, requests, newMessages, failures, response,
          questionResponses, prompts, lastRead, result, message, exchange, mainVars>>

(***************************************************************************)
(* Bounds of the model.                                                    *)
(***************************************************************************)
\* longest prose placed before and after a question payload in a response
MaxPad == 1
\* largest number of questions written in a payload (the code keeps 3)
MaxPayloadQuestions == 4
\* longest plain text returned by round two or by commit generation
MaxText == 3

(***************************************************************************)
(* Characters and strings.                                                 *)
(***************************************************************************)
Min(S) == CHOOSE x \in S : \A y \in S : x <= y

Max(S) == CHOOSE x \in S : \A y \in S : x >= y

At(s, i) == s[i + 1]

Slice(s, a, b) == SubSeq(s, a + 1, b)

\* unicode.IsSpace on the characters of the model
IsSpace(c) == c \in {" ", "\n", "\t", "\r"}

\* a plausible slip: only the leading whitespace is removed
TrimSpace_LeftOnly(s) ==
    LET keep == {k \in 1..Len(s) : ~IsSpace(s[k])}
    IN  IF keep = {} THEN <<>> ELSE SubSeq(s, Min(keep), Len(s))

\* strings.TrimSpace
TrimSpace(s) ==
    LET keep == {k \in 0..(Len(s) - 1) : ~IsSpace(At(s, k))}
    IN  IF keep = {} THEN <<>> ELSE Slice(s, Min(keep), Max(keep) + 1)

\* strings.HasPrefix
HasPrefix(s, p) == Len(s) >= Len(p) /\ Slice(s, 0, Len(p)) = p

\* whether lit occurs in s at position p
HasPrefixAt(s, p, lit) == p + Len(lit) <= Len(s) /\ Slice(s, p, p + Len(lit)) = lit

\* strings.Index: the first position of sub in s, or -1
Index(s, sub) ==
    LET hits == {k \in 0..(Len(s) - Len(sub)) : Slice(s, k, k + Len(sub)) = sub}
    IN  IF hits = {} THEN -1 ELSE Min(hits)

\* strings.ToLower on the letters the model uses
LowerOf(c) ==
    CASE c = "S" -> "s" [] c = "K" -> "k" [] c = "I" -> "i" [] c = "P" -> "p"
      [] c = "A" -> "a" [] c = "L" -> "l" [] c = "Y" -> "y" [] OTHER -> c

ToLower(s) == [k \in 1..Len(s) |-> LowerOf(s[k])]

\* strings.Split(s, "\n")[0]: the text before the first newline
FirstLine(s) ==
    LET nl == Index(s, <<"\n">>) IN IF nl = -1 THEN s ELSE Slice(s, 0, nl)

\* the literal "{\"questions\":" of extractPRDescription
QuestionsPrefix == <<"{", "\"", "q", "u", "e", "s", "t", "i", "o", "n", "s", "\"", ":">>

\* the literal "\"questions\"" of the pattern of extractQuestions
QuestionsKey == <<"\"", "q", "u", "e", "s", "t", "i", "o", "n", "s", "\"">>

SkipAll == <<"s", "k", "i", "p", " ", "a", "l", "l">>

SkipAllNoSpace == <<"s", "k", "i", "p", "a", "l", "l">>

(***************************************************************************)
(* json.Unmarshal(text, &questionsObj) with questionsObj of type           *)
(* struct{ Questions []string `json:"questions"` }.                        *)
(*                                                                         *)
(* The document accepted here is an object with the one member             *)
(* "questions" whose value is an array of strings, with JSON whitespace    *)
(* allowed between the tokens and around the document.  The responses of   *)
(* the model hold no other JSON document that decodes without error into   *)
(* a non-empty Questions (no member separator follows an array, no string  *)
(* holds an escape), and a document that decodes into an empty Questions   *)
(* takes the same branches of extractQuestions as one that fails, so every *)
(* other text is reported as an error.                                     *)
(***************************************************************************)
\* s[i], or "" past the end of s
Peek(s, i) == IF i >= 0 /\ i < Len(s) THEN s[i + 1] ELSE ""

\* JSON whitespace (encoding/json isSpace)
JsonSpace(c) == c \in {" ", "\t", "\r", "\n"}

SkipJsonSpace(s, p) ==
    LET rest == {k \in p..(Len(s) - 1) : ~JsonSpace(At(s, k))}
    IN  IF rest = {} THEN Len(s) ELSE Min(rest)

\* a JSON string starting at p: [ok, val, next]; no control character inside
JsonString(s, p) ==
    IF Peek(s, p) # "\"" THEN [ok |-> FALSE, val |-> <<>>, next |-> p]
    ELSE LET closing == {k \in (p + 1)..(Len(s) - 1) : At(s, k) = "\""}
         IN  IF closing = {} THEN [ok |-> FALSE, val |-> <<>>, next |-> p]
             ELSE LET q == Min(closing)
                      val == Slice(s, p + 1, q)
                  IN  [ok   |-> \A k \in 1..Len(val) : val[k] \notin {"\n", "\r", "\t"},
                       val  |-> val,
                       next |-> q + 1]

RECURSIVE JsonStringArrayTail(_, _, _)
\* after '[' and at least zero elements: p is at an element; [ok, vals, next]
JsonStringArrayTail(s, p, acc) ==
    LET str == JsonString(s, p)
        q   == SkipJsonSpace(s, str.next)
    IN  IF ~str.ok THEN [ok |-> FALSE, vals |-> <<>>, next |-> p]
        ELSE IF Peek(s, q) = "]"
             THEN [ok |-> TRUE, vals |-> Append(acc, str.val), next |-> q + 1]
        ELSE IF Peek(s, q) = ","
             THEN JsonStringArrayTail(s, SkipJsonSpace(s, q + 1), Append(acc, str.val))
        ELSE [ok |-> FALSE, vals |-> <<>>, next |-> p]

\* an array of strings starting at p
JsonStringArray(s, p) ==
    IF Peek(s, p) # "[" THEN [ok |-> FALSE, vals |-> <<>>, next |-> p]
    ELSE LET q == SkipJsonSpace(s, p + 1)
         IN  IF Peek(s, q) = "]" THEN [ok |-> TRUE, vals |-> <<>>, next |-> q + 1]
             ELSE JsonStringArrayTail(s, q, <<>>)

UnmarshalQuestions(s) ==
    LET fail  == [err |-> TRUE, Questions |-> <<>>]
        p0    == SkipJsonSpace(s, 0)
        key   == JsonString(s, SkipJsonSpace(s, p0 + 1))
        colon == SkipJsonSpace(s, key.next)
        arr   == JsonStringArray(s, SkipJsonSpace(s, colon + 1))
        close == SkipJsonSpace(s, arr.next)
    IN  IF Peek(s, p0) # "{" THEN fail
        ELSE IF ~key.ok \/ ToLower(key.val) # Slice(QuestionsKey, 1, Len(QuestionsKey) - 1)
             THEN fail
        ELSE IF Peek(s, colon) # ":" THEN fail
        ELSE IF ~arr.ok THEN fail
        ELSE IF Peek(s, close) # "}" THEN fail
        ELSE IF SkipJsonSpace(s, close + 1) # Len(s) THEN fail
        ELSE [err |-> FALSE, Questions |-> arr.vals]

(***************************************************************************)
(* regexp  \{[\s\n]*"questions"[\s\n]*:[\s\n]*\[.*?\][\s\n]*\}             *)
(* FindString returns the leftmost match; .*? takes the fewest characters  *)
(* and '.' matches no newline.                                             *)
(***************************************************************************)
\* the class [\s\n] of the pattern
ReSpace(c) == c \in {" ", "\t", "\n", "\r", "\f"}

SkipReSpace(s, p) ==
    LET rest == {k \in p..(Len(s) - 1) : ~ReSpace(At(s, k))}
    IN  IF rest = {} THEN Len(s) ELSE Min(rest)

\* the characters '.' matches
ReDot(c) == c # "\n"

\* the end (exclusive) of the match that starts at i, or -1
QuestionsMatchEnd(s, i) ==
    LET key     == SkipReSpace(s, i + 1)
        colon   == SkipReSpace(s, key + Len(QuestionsKey))
        bracket == SkipReSpace(s, colon + 1)
        ends    == {k \in (bracket + 1)..(Len(s) - 1) :
                       /\ At(s, k) = "]"
                       /\ \A d \in (bracket + 1)..(k - 1) : ReDot(At(s, d))
                       /\ Peek(s, SkipReSpace(s, k + 1)) = "}"}
    IN  IF Peek(s, i) # "{" THEN -1
        ELSE IF ~HasPrefixAt(s, key, QuestionsKey) THEN -1
        ELSE IF Peek(s, colon) # ":" THEN -1
        ELSE IF Peek(s, bracket) # "[" THEN -1
        ELSE IF ends = {} THEN -1
        ELSE SkipReSpace(s, Min(ends) + 1) + 1

\* the location [start, end) of re.FindString(s), start = -1 when nothing matches
FindQuestionsLoc(s) ==
    LET starts == {k \in 0..(Len(s) - 1) : QuestionsMatchEnd(s, k) # -1}
    IN  IF starts = {} THEN [start |-> -1, end |-> -1]
        ELSE [start |-> Min(starts), end |-> QuestionsMatchEnd(s, Min(starts))]

\* re.FindString(s): "" when nothing matches
FindString(s) ==
    LET loc == FindQuestionsLoc(s)
    IN  IF loc.start = -1 THEN <<>> ELSE Slice(s, loc.start, loc.end)

(***************************************************************************)
(* Question extraction (src/llm.go).                                       *)
(***************************************************************************)
maxQuestions == 3

\* convertToQuestionResponses
convertToQuestionResponses(questions) ==
    LET kept == IF Len(questions) > maxQuestions
                THEN SubSeq(questions, 1, maxQuestions) ELSE questions
    IN  [k \in 1..Len(kept) |-> [Question |-> kept[k], Answer |-> <<>>]]

NoQuestions == [questions |-> <<>>, hasQuestions |-> FALSE]

\* a plausible slip: only a response that is a payload as a whole is read
extractQuestions_WholeOnly(resp) ==
    LET whole == UnmarshalQuestions(resp)
    IN  IF ~whole.err /\ Len(whole.Questions) > 0
        THEN [questions |-> convertToQuestionResponses(whole.Questions), hasQuestions |-> TRUE]
        ELSE NoQuestions

\* extractQuestions: (questionResponses, hasQuestions)
extractQuestions(resp) ==
    LET whole == UnmarshalQuestions(resp)
        match == FindString(resp)
        part  == UnmarshalQuestions(match)
    IN  IF ~whole.err /\ Len(whole.Questions) > 0
        THEN [questions |-> convertToQuestionResponses(whole.Questions), hasQuestions |-> TRUE]
        ELSE IF match = <<>> THEN NoQuestions
        ELSE IF part.err THEN NoQuestions
        ELSE IF Len(part.Questions) = 0 THEN NoQuestions
        ELSE [questions |-> convertToQuestionResponses(part.Questions), hasQuestions |-> TRUE]

RECURSIVE BraceScan(_, _, _)
\* the loop of extractPRDescription from position i with braceCount: endIdx
BraceScan(resp, i, braceCount) ==
    IF i >= Len(resp) THEN -1
    ELSE IF At(resp, i) = "{" THEN BraceScan(resp, i + 1, braceCount + 1)
    ELSE IF At(resp, i) = "}"
         THEN IF braceCount - 1 = 0 THEN i ELSE BraceScan(resp, i + 1, braceCount - 1)
    ELSE BraceScan(resp, i + 1, braceCount)

\* the join of the text before and after the questions
JoinSides(beforeQuestions, afterQuestions) ==
    IF beforeQuestions # <<>> /\ afterQuestions # <<>>
    THEN beforeQuestions \o <<"\n", "\n">> \o afterQuestions
    ELSE IF beforeQuestions # <<>> THEN beforeQuestions
    ELSE IF afterQuestions # <<>> THEN afterQuestions
    ELSE <<>>

\* extractPRDescription
extractPRDescription(resp) ==
    LET startIdx == Index(resp, QuestionsPrefix)
        endIdx   == BraceScan(resp, startIdx, 0)
    IN  IF TrimSpace(resp) = <<>> \/ HasPrefix(TrimSpace(resp), QuestionsPrefix) THEN <<>>
        ELSE IF startIdx = -1 THEN resp
        ELSE IF endIdx = -1 THEN resp
        ELSE JoinSides(TrimSpace(Slice(resp, 0, startIdx)),
                       TrimSpace(Slice(resp, endIdx + 1, Len(resp))))

\* the first-line limit loadConfig sets when the file gives none
DefaultFirstLineLimit == 72

\* a plausible slip: the whole message is cut at the limit
trimFirstLine_WholeMessage(msg, limit) ==
    IF limit <= 0 THEN msg
    ELSE IF Len(msg) > limit THEN Slice(msg, 0, limit)
    ELSE msg

\* trimFirstLine (src/helper.go)
trimFirstLine(msg, limit) ==
    LET first == FirstLine(msg)
    IN  IF limit <= 0 THEN msg
        ELSE IF Len(first) > limit
             THEN Slice(first, 0, limit) \o Slice(msg, Len(first), Len(msg))
        ELSE msg

(***************************************************************************)
(* Inputs of an invocation: what the caller passes, what the template      *)
(* file holds, what the completion service answers and what the human      *)
(* types.                                                                  *)
(***************************************************************************)
SeqsUpTo(S, n) == UNION {[1..k -> S] : k \in 0..n}

\* the staged diff: empty, one line, two lines
Diffs == {<<>>, <<"d">>, <<"d", "\n", "e">>}

\* the commit log between the branches: empty or not
CommitLogs == {<<>>, <<"d">>}

\* what the caller passes to create*Message
Inputs == IF mode = "commit" THEN Diffs ELSE CommitLogs

\* LLMConfig values: with and without a credential, questions on and off
Configs == [APIKey : {<<>>, <<"k">>}, EnableQuestions : BOOLEAN]

\* first-line limits passed by the caller
Limits == {0, 2}

\* outcomes of ioutil.ReadFile(templatePath) for the commit template
CommitTemplateFiles ==
    {[ok |-> FALSE, data |-> <<>>]}
    \cup {[ok |-> TRUE, data |-> t] : t \in {<<>>, <<"T">>, <<"T", "\n", "U">>}}

\* outcomes of ioutil.ReadFile(templatePath) for the pull-request template
PRTemplateFiles == {[ok |-> FALSE, data |-> <<>>], [ok |-> TRUE, data |-> <<"T">>]}

\* outcomes of ioutil.ReadFile(templatePath)
TemplateFiles == IF mode = "commit" THEN CommitTemplateFiles ELSE PRTemplateFiles

\* prose around a payload
Pads == SeqsUpTo({"x", " "}, MaxPad)

QuestionLetters == <<"A", "B", "C", "D", "E", "F">>

\* the text of the k-th question of a payload
QuestionText(k) == <<QuestionLetters[k]>>

RECURSIVE PayloadElements(_, _)
\* "A",<sep>"B",<sep>... : n JSON strings
PayloadElements(n, sep) ==
    IF n = 0 THEN <<>>
    ELSE IF n = 1 THEN <<"\"">> \o QuestionText(1) \o <<"\"">>
    ELSE PayloadElements(n - 1, sep) \o <<",">> \o sep \o <<"\"">> \o QuestionText(n) \o <<"\"">>

\* whitespace layouts of a payload: after '{', before ':', after ':',
\* after each ',', before '}'
Shapes ==
    { [a |-> <<>>,    b |-> <<>>,    c |-> <<>>,     sep |-> <<>>,     d |-> <<>>],
      [a |-> <<" ">>, b |-> <<>>,    c |-> <<>>,     sep |-> <<>>,     d |-> <<>>],
      [a |-> <<>>,    b |-> <<" ">>, c |-> <<" ">>,  sep |-> <<" ">>,  d |-> <<>>],
      [a |-> <<>>,    b |-> <<>>,    c |-> <<" ">>,  sep |-> <<"\n">>, d |-> <<>>],
      [a |-> <<>>,    b |-> <<>>,    c |-> <<"\n">>, sep |-> <<>>,     d |-> <<"\n">>] }

CompactShape == [a |-> <<>>, b |-> <<>>, c |-> <<>>, sep |-> <<>>, d |-> <<>>]

\* {"questions":["A","B",...]} with n questions in layout sh
Payload(sh, n) ==
    <<"{">> \o sh.a \o QuestionsKey \o sh.b \o <<":">> \o sh.c \o <<"[">>
        \o PayloadElements(n, sh.sep) \o <<"]">> \o sh.d \o <<"}">>

\* the middle of a response: nothing, a payload, a payload cut before its
\* closing brace, a payload after an opening that is never closed
Middles ==
    {<<>>}
    \cup {Payload(sh, n) : sh \in Shapes, n \in 0..MaxPayloadQuestions}
    \cup {SubSeq(Payload(CompactShape, 1), 1, Len(Payload(CompactShape, 1)) - 1)}
    \cup {QuestionsPrefix \o <<"\n">> \o Payload(CompactShape, 1)}

\* texts the completion service returns in round one
Responses == {pre \o mid \o post : pre \in Pads, mid \in Middles, post \in Pads}

\* texts the completion service returns in round two and for a commit
Texts == SeqsUpTo({"x", " ", "\n"}, MaxText) \cup {Payload(CompactShape, 1)}

\* a line of n characters
LongLine(n) == [k \in 1..n |-> "x"]

\* texts with first lines around the default limit and around a small limit
LongTexts ==
    { <<"x">>, <<"x", " ", "x">>, <<"x", "x", "x", "\n", "x">>, <<" ", "x", "\n">>,
      LongLine(DefaultFirstLineLimit), LongLine(DefaultFirstLineLimit + 1),
      LongLine(DefaultFirstLineLimit + 1) \o <<"\n", "\n", "x">> }

\* drafts that take GeneratePRMessage through each of its paths: no text, a
\* description, payloads of up to MaxPayloadQuestions questions alone and in
\* prose, a payload cut before its closing brace, a payload after an opening
\* that is never closed
Drafts ==
    {<<>>, <<"x">>}
    \cup {Payload(CompactShape, n) : n \in 0..MaxPayloadQuestions}
    \cup {<<"x">> \o Payload(CompactShape, 2)}
    \cup {<<"x">> \o SubSeq(Payload(CompactShape, 1), 1, Len(Payload(CompactShape, 1)) - 1)}
    \cup {<<"x">> \o QuestionsPrefix \o <<"\n">> \o Payload(CompactShape, 1)}

\* what the completion service answers in round one: any small response, the
\* drafts, or a long text or a payload when main runs
RoundOneTexts ==
    IF service = "any" THEN Responses
    ELSE IF service = "drafts" THEN Drafts
    ELSE LongTexts \cup {Payload(CompactShape, 1)}

\* what the completion service answers in round two and for a commit
PlainTexts ==
    IF service = "any" THEN Texts
    ELSE IF service = "drafts" THEN {<<>>, <<"x">>, Payload(CompactShape, 1)}
    ELSE LongTexts

\* messages of the error payload of a ChatResponse
ErrorMessages == {"quota exceeded", "overloaded"}

\* what the HTTP exchange can give for candidate texts T: the stage at which
\* it ends, and the decoded ChatResponse (the message of Error or nil, the
\* contents of Choices)
HttpOutcomes(T) ==
    {[stage |-> st, Error |-> "nil", Choices |-> <<>>] : st \in {"send", "read", "unmarshal"}}
    \cup {[stage |-> "decoded", Error |-> m, Choices |-> c] :
              m \in ErrorMessages, c \in {<<>>, <<<<"x">>>>}}
    \cup {[stage |-> "decoded", Error |-> "nil", Choices |-> <<>>]}
    \cup {[stage |-> "decoded", Error |-> "nil", Choices |-> <<t>>] : t \in T}
    \cup {[stage |-> "decoded", Error |-> "nil", Choices |-> <<<<>>, <<"x">>>>]}

\* results of reader.ReadString('\n'): a line with its newline, or what was
\* read before the end of input together with an error
ConsoleReads ==
    { [data |-> <<"\n">>, err |-> FALSE],
      [data |-> <<"y", "\n">>, err |-> FALSE],
      [data |-> <<"S", "k", "i", "p", " ", "A", "l", "l", "\n">>, err |-> FALSE],
      [data |-> <<" ", "s", "k", "i", "p", "a", "l", "l", "\n">>, err |-> FALSE],
      [data |-> <<>>, err |-> TRUE],
      [data |-> <<"y">>, err |-> TRUE] }

(***************************************************************************)
(* The completion request (src/llm.go).                                    *)
(***************************************************************************)
Nil == "nil"

NoResult == [text |-> <<>>, err |-> Nil]

NoRead == [data |-> <<>>, err |-> FALSE]

\* no exchange yet
NoExchange == [stage |-> "none", Error |-> Nil, Choices |-> <<>>]

\* fmt.Errorf("API error: %s", chatResp.Error.Message)
ApiError(msg) ==
    IF msg = "quota exceeded" THEN "API error: quota exceeded" ELSE "API error: overloaded"

\* a plausible slip: the candidates are looked at before the error payload
makeOpenAIRequest_ChoicesFirst(h) ==
    IF h.stage = "send" THEN [text |-> <<>>, err |-> "failed to send request"]
    ELSE IF h.stage = "read" THEN [text |-> <<>>, err |-> "failed to read response"]
    ELSE IF h.stage = "unmarshal" THEN [text |-> <<>>, err |-> "failed to unmarshal response"]
    ELSE IF Len(h.Choices) > 0 THEN [text |-> h.Choices[1], err |-> Nil]
    ELSE IF h.Error # Nil THEN [text |-> <<>>, err |-> ApiError(h.Error)]
    ELSE [text |-> <<>>, err |-> "no response from API"]

\* makeOpenAIRequest from client.Do on, for the HTTP exchange h: (text, err)
makeOpenAIRequest(h) ==
    IF h.stage = "send" THEN [text |-> <<>>, err |-> "failed to send request"]
    ELSE IF h.stage = "read" THEN [text |-> <<>>, err |-> "failed to read response"]
    ELSE IF h.stage = "unmarshal" THEN [text |-> <<>>, err |-> "failed to unmarshal response"]
    ELSE IF h.Error # Nil THEN [text |-> <<>>, err |-> ApiError(h.Error)]
    ELSE IF Len(h.Choices) = 0 THEN [text |-> <<>>, err |-> "no response from API"]
    ELSE [text |-> h.Choices[1], err |-> Nil]

\* getQuestionsPrompt
getQuestionsPrompt(enableQuestions) ==
    IF enableQuestions THEN <<"<questions-policy>">> ELSE <<>>

\* a plausible slip: the template is left out of the system prompt
CommitSystemPrompt_NoTemplate(tpl) == <<"<commit-instructions>">>

\* the system prompt of GenerateCommitMessage
CommitSystemPrompt(tpl) == <<"<commit-instructions>">> \o tpl

\* the system prompt of GeneratePRMessage
PRSystemPrompt(cfg, tpl) ==
    <<"<pr-instructions>">> \o getQuestionsPrompt(cfg.EnableQuestions)
        \o <<"<use-template>">> \o tpl

\* messages of GenerateCommitMessage
CommitMessages(diff, tpl) ==
    << [Role |-> "system", Content |-> CommitSystemPrompt(tpl)],
       [Role |-> "user", Content |-> <<"<Here is the git diff:>">> \o diff] >>

\* messages of round one of GeneratePRMessage
PRMessages(commits, cfg, tpl) ==
    << [Role |-> "system", Content |-> PRSystemPrompt(cfg, tpl)],
       [Role |-> "user", Content |-> <<"<Here are the commit messages from the branch:>">> \o commits] >>

\* a plausible slip: a turn pair for every question, answered or not
QuestionTurns_All(qas) ==
    [k \in 1..(2 * Len(qas)) |->
        IF k % 2 = 1 THEN [Role |-> "assistant", Content |-> qas[(k + 1) \div 2].Question]
                     ELSE [Role |-> "user", Content |-> qas[k \div 2].Answer]]

RECURSIVE QuestionTurns(_)
\* one assistant and one user message for each question with an answer
QuestionTurns(qas) ==
    IF qas = <<>> THEN <<>>
    ELSE IF Head(qas).Answer # <<>>
         THEN << [Role |-> "assistant", Content |-> Head(qas).Question],
                 [Role |-> "user", Content |-> Head(qas).Answer] >> \o QuestionTurns(Tail(qas))
    ELSE QuestionTurns(Tail(qas))

\* a plausible slip: only what is new is sent in round two
RoundTwoMessages_Delta(commits, cfg, tpl, qas) ==
    << [Role |-> "assistant", Content |-> <<"<I need some additional information>">>] >>
        \o QuestionTurns(qas)
        \o << [Role |-> "user", Content |-> <<"<Now that you have this additional information>">>] >>

\* newMessages of GeneratePRMessage
RoundTwoMessages(commits, cfg, tpl, qas) ==
    PRMessages(commits, cfg, tpl)
        \o << [Role |-> "assistant", Content |-> <<"<I need some additional information>">>] >>
        \o QuestionTurns(qas)
        \o << [Role |-> "user", Content |-> <<"<Now that you have this additional information>">>] >>

\* a plausible slip: any question asked counts as answered
AnyAnswered_Asked(qas) == Len(qas) > 0

\* whether any question has an answer
AnyAnswered(qas) == \E k \in 1..Len(qas) : qas[k].Answer # <<>>

\* the test for the skip-all sentinel in askUserQuestions
IsSkipAll(answer) == ToLower(answer) = SkipAll \/ ToLower(answer) = SkipAllNoSpace

\* one iteration of the loop of askUserQuestions on question i (0-based)
\* with the console read rd
AnswerQuestion(qas, i, rd) ==
    LET answer == TrimSpace(rd.data)
        set    == [qas EXCEPT ![i + 1].Answer = answer]
    IN  IF IsSkipAll(answer)
        THEN [k \in 1..Len(set) |-> IF k > i + 1 THEN [set[k] EXCEPT !.Answer = <<>>] ELSE set[k]]
        ELSE set

\* a plausible slip: the sentinel blanks the rest but the loop goes on
LoopEnds_IgnoresSentinel(qas, i, rd) == i + 1 >= Len(qas)

\* a plausible slip: the loop has no bound on the questions
LoopEnds_OnlySentinel(qas, i, rd) == IsSkipAll(TrimSpace(rd.data))

\* whether the loop of askUserQuestions ends after question i
LoopEnds(qas, i, rd) == IsSkipAll(TrimSpace(rd.data)) \/ i + 1 >= Len(qas)

\* a plausible slip: the outcome of the detection is not consulted
ShouldAsk_IgnoresDetection(hasQuestions, cfg) == cfg.EnableQuestions

\* a plausible slip: the flag is not consulted
ShouldAsk_IgnoresFlag(hasQuestions, cfg) == hasQuestions

\* the test of GeneratePRMessage for entering the question dialogue
ShouldAsk(hasQuestions, cfg) == hasQuestions /\ cfg.EnableQuestions

\* a plausible slip: the missing credential is not noticed
HasCredential_Always(cfg) == TRUE

\* the credential test of Generate*Message (negated)
HasCredential(cfg) == cfg.APIKey # <<>>

\* a plausible slip: the error of the request is dropped
RequestFailed_Swallowed(r) == [text |-> <<>>, err |-> Nil]

\* what GeneratePRMessage returns when a request failed
RequestFailed(r) == [text |-> <<>>, err |-> r.err]

\* a plausible slip: the second text is searched for questions like the first
AfterRoundTwo_AsksAgain(r) ==
    IF r.err = Nil /\ extractQuestions(r.text).hasQuestions THEN "ask" ELSE "returned"

\* a plausible slip: a failed second request is sent again
AfterRoundTwo_Retry(r) == IF r.err # Nil THEN "round2" ELSE "returned"

\* where GeneratePRMessage goes after the second request: it returns
AfterRoundTwo(r) == "returned"

(***************************************************************************)
(* The invocation.                                                         *)
(***************************************************************************)
\* the flags of main when main is not running
NoFlags == [pr |-> FALSE, skipCreate |-> FALSE, dryRun |-> FALSE, amend |-> FALSE,
            configPath |-> ""]

NoFileSystem == [loads |-> {}, home |-> FALSE, exec |-> FALSE, OPENAI_KEY |-> <<>>]

NoConfigFile == [hasLimit |-> FALSE, first_line_limit |-> 0, api_key |-> <<>>,
                 enable_questions |-> FALSE]

NoConfig == [from |-> "", FirstLineLimit |-> 0, LLM |-> [APIKey |-> <<>>, EnableQuestions |-> FALSE],
             err |-> Nil]

NoTempFile == [exists |-> FALSE, content |-> <<>>]

\* no request made, nothing asked, nothing returned
NothingGenerated ==
    /\ template = <<>>
    /\ templateReads = 0
    /\ credentialChecks = 0
    /\ requests = <<>>
    /\ newMessages = <<>>
    /\ failures = 0
    /\ response = <<>>
    /\ questionResponses = <<>>
    /\ prompts = 0
    /\ lastRead = NoRead
    /\ result = NoResult
    /\ message = NoResult
    /\ exchange = NoExchange

\* create*Message is called on its own, outside of main
CalledAlone ==
    /\ service = "any"
    /\ flags = NoFlags
    /\ fs = NoFileSystem
    /\ tried = <<>>
    /\ configFile = NoConfigFile
    /\ config = NoConfig
    /\ mainPc = "none"
    /\ tempFile = NoTempFile
    /\ effects = <<>>

\* create*Message is called with any input, LLMConfig and limit
Init ==
    /\ mode \in {"commit", "pr"}
    /\ input \in Inputs
    /\ llmConfig \in Configs
    /\ firstLineLimit \in Limits
    /\ pc = "create"
    /\ NothingGenerated
    /\ CalledAlone

\* a plausible slip: the template is read before the input is looked at
CreateBegin_ReadsFirst(emptyError, readError) ==
    /\ pc = "create"
    /\ \E file \in TemplateFiles :
         /\ templateReads' = templateReads + 1
         /\ IF ~file.ok
            THEN /\ message' = [text |-> <<>>, err |-> readError]
                 /\ pc' = "done"
                 /\ UNCHANGED template
            ELSE IF input = <<>>
                 THEN /\ message' = [text |-> <<>>, err |-> emptyError]
                      /\ pc' = "done"
                      /\ UNCHANGED template
            ELSE /\ template' = file.data
                 /\ pc' = "generate"
                 /\ UNCHANGED message
    /\ UNCHANGED <<exchange, mainVars>>
    /\ UNCHANGED <<mode, input, llmConfig, firstLineLimit, credentialChecks, requests,
                   newMessages, failures, response, questionResponses, prompts,
                   lastRead, result>>

\* create*Message up to the call of Generate*Message
CreateBegin(emptyError, readError) ==
    /\ pc = "create"
    /\ IF input = <<>>
       THEN /\ message' = [text |-> <<>>, err |-> emptyError]
            /\ pc' = "done"
            /\ UNCHANGED <<template, templateReads>>
       ELSE \E file \in TemplateFiles :
              /\ templateReads' = templateReads + 1
              /\ IF file.ok
                 THEN /\ template' = file.data
                      /\ pc' = "generate"
                      /\ UNCHANGED message
                 ELSE /\ message' = [text |-> <<>>, err |-> readError]
                      /\ pc' = "done"
                      /\ UNCHANGED template
    /\ UNCHANGED <<exchange, mainVars>>
    /\ UNCHANGED <<mode, input, llmConfig, firstLineLimit, credentialChecks, requests,
                   newMessages, failures, response, questionResponses, prompts,
                   lastRead, result>>

createCommitMessage_Begin ==
    /\ mode = "commit"
    /\ CreateBegin("no changes staged", "failed to read commit template")

createPRMessage_Begin ==
    /\ mode = "pr"
    /\ CreateBegin("no commits found between branches", "failed to read PR template")

\* create*Message from the return of Generate*Message on
CreateEnd ==
    /\ pc = "returned"
    /\ message' = IF result.err # Nil
                  THEN [text |-> <<>>, err |-> "LLM generation failed"]
                  ELSE [text |-> IF firstLineLimit > 0
                                 THEN trimFirstLine(result.text, firstLineLimit)
                                 ELSE result.text,
                        err  |-> Nil]
    /\ pc' = "done"
    /\ UNCHANGED <<exchange, mainVars>>
    /\ UNCHANGED <<mode, input, llmConfig, firstLineLimit, template, templateReads,
                   credentialChecks, requests, newMessages, failures, response,
                   questionResponses, prompts, lastRead, result>>

createCommitMessage_End == mode = "commit" /\ CreateEnd

createPRMessage_End == mode = "pr" /\ CreateEnd

\* Generate*Message without a credential
NoCredential ==
    /\ pc = "generate"
    /\ ~HasCredential(llmConfig)
    /\ credentialChecks' = credentialChecks + 1
    /\ result' = [text |-> <<>>, err |-> "OpenAI API key not found"]
    /\ pc' = "returned"
    /\ UNCHANGED <<exchange, mainVars>>
    /\ UNCHANGED <<mode, input, llmConfig, firstLineLimit, template, templateReads,
                   requests, newMessages, failures, response, questionResponses,
                   prompts, lastRead, message>>

GenerateCommitMessage_NoKey == mode = "commit" /\ NoCredential

GeneratePRMessage_NoKey == mode = "pr" /\ NoCredential

\* GenerateCommitMessage with a credential: one request
GenerateCommitMessage ==
    /\ pc = "generate"
    /\ mode = "commit"
    /\ HasCredential(llmConfig)
    /\ credentialChecks' = credentialChecks + 1
    /\ requests' = Append(requests, CommitMessages(input, template))
    /\ \E h \in HttpOutcomes(PlainTexts) :
         LET r == makeOpenAIRequest(h)
         IN  /\ exchange' = h
             /\ failures' = IF r.err # Nil THEN failures + 1 ELSE failures
             /\ result' = IF r.err # Nil THEN r ELSE [text |-> TrimSpace(r.text), err |-> Nil]
    /\ pc' = "returned"
    /\ UNCHANGED mainVars
    /\ UNCHANGED <<mode, input, llmConfig, firstLineLimit, template, templateReads,
                   newMessages, response, questionResponses, prompts, lastRead, message>>

\* GeneratePRMessage with a credential, up to the first console read or to
\* its return
GeneratePRMessage_RoundOne ==
    /\ pc = "generate"
    /\ mode = "pr"
    /\ HasCredential(llmConfig)
    /\ credentialChecks' = credentialChecks + 1
    /\ requests' = Append(requests, PRMessages(input, llmConfig, template))
    /\ \E h \in HttpOutcomes(RoundOneTexts) :
         LET r  == makeOpenAIRequest(h)
             ex == extractQuestions(r.text)
         IN  /\ exchange' = h
             /\ IF r.err # Nil
                THEN /\ failures' = failures + 1
                     /\ result' = RequestFailed(r)
                     /\ pc' = "returned"
                     /\ response' = r.text
                     /\ UNCHANGED questionResponses
                ELSE /\ failures' = failures
                     /\ response' = r.text
                     /\ questionResponses' = ex.questions
                     /\ IF ShouldAsk(ex.hasQuestions, llmConfig)
                        THEN /\ pc' = "ask"
                             /\ UNCHANGED result
                        ELSE /\ result' = [text |-> TrimSpace(r.text), err |-> Nil]
                             /\ pc' = "returned"
    /\ UNCHANGED mainVars
    /\ UNCHANGED <<mode, input, llmConfig, firstLineLimit, template, templateReads,
                   newMessages, prompts, lastRead, message>>

\* askUserQuestions: one question is presented and one line is read; after
\* the last one, GeneratePRMessage goes on to the second request or returns.
askUserQuestions ==
    /\ pc = "ask"
    /\ prompts < Len(questionResponses)
    /\ \E rd \in ConsoleReads :
         LET qas == AnswerQuestion(questionResponses, prompts, rd)
         IN  /\ lastRead' = rd
             /\ questionResponses' = qas
             /\ prompts' = prompts + 1
             /\ IF ~LoopEnds(questionResponses, prompts, rd)
                THEN /\ pc' = "ask"
                     /\ UNCHANGED <<response, newMessages, result>>
                ELSE IF AnyAnswered(qas)
                     THEN /\ newMessages' = RoundTwoMessages(input, llmConfig, template, qas)
                          /\ pc' = "round2"
                          /\ UNCHANGED <<response, result>>
                ELSE /\ response' = extractPRDescription(response)
                     /\ result' = [text |-> TrimSpace(response'), err |-> Nil]
                     /\ pc' = "returned"
                     /\ UNCHANGED newMessages
    /\ UNCHANGED <<exchange, mainVars>>
    /\ UNCHANGED <<mode, input, llmConfig, firstLineLimit, template, templateReads,
                   credentialChecks, requests, failures, message>>

\* the second request of GeneratePRMessage and its return
GeneratePRMessage_RoundTwo ==
    /\ pc = "round2"
    /\ requests' = Append(requests, newMessages)
    /\ \E h \in HttpOutcomes(PlainTexts) :
         LET r == makeOpenAIRequest(h)
         IN  /\ exchange' = h
             /\ pc' = AfterRoundTwo(r)
             /\ IF r.err # Nil
                THEN /\ failures' = failures + 1
                     /\ response' = r.text
                     /\ result' = RequestFailed(r)
                ELSE /\ failures' = failures
                     /\ response' = r.text
                     /\ result' = [text |-> TrimSpace(r.text), err |-> Nil]
    /\ UNCHANGED mainVars
    /\ UNCHANGED <<mode, input, llmConfig, firstLineLimit, template, templateReads,
                   credentialChecks, newMessages, questionResponses, prompts,
                   lastRead, message>>

Next ==
    \/ createCommitMessage_Begin
    \/ createPRMessage_Begin
    \/ GenerateCommitMessage_NoKey
    \/ GeneratePRMessage_NoKey
    \/ GenerateCommitMessage
    \/ GeneratePRMessage_RoundOne
    \/ askUserQuestions
    \/ GeneratePRMessage_RoundTwo
    \/ createCommitMessage_End
    \/ createPRMessage_End

Spec == Init /\ [][Next]_vars

(***************************************************************************)
(* The configuration search (src/helper.go).                               *)
(***************************************************************************)
\* the -config path and the three standard locations
Locations == {"custom", "cwd", "home", "exec"}

\* what the configuration file at a location holds
FileAt(location) ==
    IF location = "custom"
    THEN [hasLimit |-> TRUE, first_line_limit |-> 10, api_key |-> <<"k">>, enable_questions |-> TRUE]
    ELSE IF location = "cwd"
    THEN [hasLimit |-> FALSE, first_line_limit |-> 0, api_key |-> <<"k">>, enable_questions |-> FALSE]
    ELSE IF location = "home"
    THEN [hasLimit |-> TRUE, first_line_limit |-> 50, api_key |-> <<>>, enable_questions |-> TRUE]
    ELSE [hasLimit |-> TRUE, first_line_limit |-> -1, api_key |-> <<>>, enable_questions |-> FALSE]

\* json.Unmarshal of first_line_limit into Config.FirstLineLimit
DecodedLimit(file) == IF file.hasLimit THEN file.first_line_limit ELSE 0

\* a plausible slip: the default is not applied to a limit of 0
loadConfig_NoDefault(location, file, envKey) ==
    [from |-> location,
     FirstLineLimit |-> DecodedLimit(file),
     LLM |-> [APIKey |-> IF file.api_key = <<>> THEN envKey ELSE file.api_key,
              EnableQuestions |-> file.enable_questions],
     err |-> Nil]

\* loadConfig on a file that is read and parsed: the Config it returns
loadConfig(location, file, envKey) ==
    [from |-> location,
     FirstLineLimit |-> IF DecodedLimit(file) = 0 THEN DefaultFirstLineLimit
                        ELSE DecodedLimit(file),
     LLM |-> [APIKey |-> IF file.api_key = <<>> THEN envKey ELSE file.api_key,
              EnableQuestions |-> file.enable_questions],
     err |-> Nil]

\* Config{} with an error
ConfigError(e) == [NoConfig EXCEPT !.err = e]

\* a plausible slip: the executable's directory comes before the home directory
configLocations_ExecFirst(f) ==
    <<"cwd">> \o (IF f.exec THEN <<"exec">> ELSE <<>>) \o (IF f.home THEN <<"home">> ELSE <<>>)

\* configLocations of loadConfigFromPrioritizedLocations
configLocations(f) ==
    <<"cwd">> \o (IF f.home THEN <<"home">> ELSE <<>>) \o (IF f.exec THEN <<"exec">> ELSE <<>>)

\* a plausible slip: after the custom path failed the search goes on
CustomFailure_FallsBack(t) == "config"

\* where main is after the custom path failed to load: it exits
CustomFailure(t) == "exit1"

\* main is started with or without -config; any of the files may load
InitConfig ==
    /\ flags \in [pr : {FALSE}, skipCreate : {FALSE}, dryRun : {FALSE}, amend : {FALSE},
                  configPath : {"", "custom"}]
    /\ fs \in [loads : SUBSET Locations, home : BOOLEAN, exec : BOOLEAN,
               OPENAI_KEY : {<<>>, <<"e">>}]
    /\ tried = <<>>
    /\ configFile = NoConfigFile
    /\ config = NoConfig
    /\ mainPc = "config"
    /\ tempFile = NoTempFile
    /\ effects = <<>>
    /\ service = "long"
    /\ mode = "commit"
    /\ input = <<>>
    /\ llmConfig = NoConfig.LLM
    /\ firstLineLimit = 0
    /\ pc = "idle"
    /\ NothingGenerated

\* loadConfigFromPrioritizedLocations with a custom path, and main's exit
\* when it fails
loadConfigFromPrioritizedLocations_Custom ==
    /\ mainPc = "config"
    /\ flags.configPath # ""
    /\ tried = <<>>
    /\ tried' = <<"custom">>
    /\ IF "custom" \in fs.loads
       THEN /\ configFile' = FileAt("custom")
            /\ config' = loadConfig("custom", FileAt("custom"), fs.OPENAI_KEY)
            /\ mainPc' = "configured"
            /\ UNCHANGED effects
       ELSE /\ config' = ConfigError("failed to load config from specified path")
            /\ mainPc' = CustomFailure(tried')
            /\ effects' = Append(effects, [op |-> "Println", arg |-> <<"<Error loading config>">>])
            /\ UNCHANGED configFile
    /\ UNCHANGED <<service, flags, fs, tempFile>>
    /\ UNCHANGED <<mode, input, llmConfig, firstLineLimit, pc, template, templateReads,
                   credentialChecks, requests, newMessages, failures, response,
                   questionResponses, prompts, lastRead, result, message, exchange>>

\* one iteration of the loop of loadConfigFromPrioritizedLocations over the
\* standard locations, with its return and main's exit after the last one
loadConfigFromPrioritizedLocations_Next ==
    /\ mainPc = "config"
    /\ flags.configPath = ""
    /\ LET done     == Len(tried)
           location == configLocations(fs)[done + 1]
       IN  /\ done < Len(configLocations(fs))
           /\ tried' = Append(tried, location)
           /\ IF location \in fs.loads
              THEN /\ configFile' = FileAt(location)
                   /\ config' = loadConfig(location, FileAt(location), fs.OPENAI_KEY)
                   /\ mainPc' = "configured"
                   /\ UNCHANGED effects
              ELSE IF done + 1 = Len(configLocations(fs))
                   THEN /\ config' = ConfigError("could not find config file in any standard location")
                        /\ mainPc' = "exit1"
                        /\ effects' = Append(effects, [op |-> "Println", arg |-> <<"<Error loading config>">>])
                        /\ UNCHANGED configFile
              ELSE UNCHANGED <<configFile, config, mainPc, effects>>
    /\ UNCHANGED <<service, flags, fs, tempFile>>
    /\ UNCHANGED <<mode, input, llmConfig, firstLineLimit, pc, template, templateReads,
                   credentialChecks, requests, newMessages, failures, response,
                   questionResponses, prompts, lastRead, result, message, exchange>>

NextConfig ==
    \/ loadConfigFromPrioritizedLocations_Custom
    \/ loadConfigFromPrioritizedLocations_Next

SpecConfig == InitConfig /\ [][NextConfig]_vars

(***************************************************************************)
(* main (src/unnamed/part_000, src/main.go) from the loaded configuration  *)
(* on.                                                                     *)
(***************************************************************************)
\* the variables of create*Message and Generate*Message
callVars == <<mode, input, llmConfig, firstLineLimit, pc, template, templateReads,
              credentialChecks, requests, newMessages, failures, response,
              questionResponses, prompts, lastRead, result, message, exchange>>

\* configuration files main runs with: the limit absent, 0, negative and
\* small; with and without a key; questions on and off
MainConfigFiles ==
    {[hasLimit |-> l.has, first_line_limit |-> l.limit, api_key |-> k, enable_questions |-> q] :
        l \in {[has |-> FALSE, limit |-> 0], [has |-> TRUE, limit |-> 0],
               [has |-> TRUE, limit |-> -1], [has |-> TRUE, limit |-> 2]},
        k \in {<<>>, <<"k">>},
        q \in BOOLEAN}

\* the firstLineLimit argument main passes to create*Message
FirstLineLimitArgument(cfg) == cfg.FirstLineLimit

\* a plausible slip: -dry-run is honoured for commits only
DryRunReturns_CommitOnly(f) == f.dryRun /\ ~f.pr

\* whether main returns after printing the message
DryRunReturns(f) == f.dryRun

\* whether the removal of the temporary file is deferred
RemovalDeferred(f) == ~f.pr \/ f.skipCreate

\* what main calls after the editor
PublishCall(f) ==
    IF f.pr THEN (IF ~f.skipCreate THEN "createPullRequest" ELSE "Printf saved to")
    ELSE IF f.amend THEN "amendCommitWithMessage"
    ELSE "commitChanges"

\* fmt.Println("Error ...") followed by os.Exit(1)
ExitWithError ==
    /\ effects' = Append(effects, [op |-> "Println", arg |-> <<"<Error>">>])
    /\ mainPc' = "exit1"

\* main has parsed its flags and loaded the configuration from the current
\* directory
InitMain ==
    /\ flags \in [pr : BOOLEAN, skipCreate : BOOLEAN, dryRun : BOOLEAN, amend : BOOLEAN,
                  configPath : {""}]
    /\ fs = [loads |-> {"cwd"}, home |-> TRUE, exec |-> TRUE, OPENAI_KEY |-> <<>>]
    /\ tried = <<"cwd">>
    /\ configFile \in MainConfigFiles
    /\ config = loadConfig("cwd", configFile, fs.OPENAI_KEY)
    /\ mainPc = "configured"
    /\ tempFile = NoTempFile
    /\ effects = <<>>
    /\ service = "long"
    /\ mode = IF flags.pr THEN "pr" ELSE "commit"
    /\ input = <<>>
    /\ llmConfig = NoConfig.LLM
    /\ firstLineLimit = 0
    /\ pc = "idle"
    /\ NothingGenerated

\* main reads the diff or the commit log and calls create*Message
main_GetInput ==
    /\ mainPc = "configured"
    /\ \/ /\ ExitWithError
          /\ UNCHANGED <<input, llmConfig, firstLineLimit, pc>>
       \/ /\ input' \in Inputs
          /\ llmConfig' = config.LLM
          /\ firstLineLimit' = FirstLineLimitArgument(config)
          /\ pc' = "create"
          /\ mainPc' = "generate"
          /\ UNCHANGED effects
    /\ UNCHANGED <<service, flags, fs, tried, configFile, config, tempFile>>
    /\ UNCHANGED <<mode, template, templateReads, credentialChecks, requests, newMessages,
                   failures, response, questionResponses, prompts, lastRead, result,
                   message, exchange>>

\* create*Message returned an error
main_GenerateFailed ==
    /\ mainPc = "generate"
    /\ pc = "done"
    /\ message.err # Nil
    /\ ExitWithError
    /\ UNCHANGED <<service, flags, fs, tried, configFile, config, tempFile>>
    /\ UNCHANGED callVars

\* -dry-run: the message is printed and main returns
main_DryRun ==
    /\ mainPc = "generate"
    /\ pc = "done"
    /\ message.err = Nil
    /\ DryRunReturns(flags)
    /\ effects' = Append(effects, [op |-> "Println", arg |-> message.text])
    /\ mainPc' = "exit0"
    /\ UNCHANGED <<service, flags, fs, tried, configFile, config, tempFile>>
    /\ UNCHANGED callVars

\* os.Create(tempFile)
main_CreateTemp ==
    /\ mainPc = "generate"
    /\ pc = "done"
    /\ message.err = Nil
    /\ ~DryRunReturns(flags)
    /\ \/ /\ ExitWithError
          /\ UNCHANGED tempFile
       \/ /\ tempFile' = [exists |-> TRUE, content |-> <<>>]
          /\ effects' = Append(effects, [op |-> "os.Create", arg |-> <<>>])
          /\ mainPc' = "write"
    /\ UNCHANGED <<service, flags, fs, tried, configFile, config>>
    /\ UNCHANGED callVars

\* file.WriteString(message) and file.Close(): the write fails, the close
\* fails after the write, or both succeed
main_WriteTemp ==
    /\ mainPc = "write"
    /\ \/ /\ ExitWithError
          /\ UNCHANGED tempFile
       \/ /\ tempFile' = [exists |-> TRUE, content |-> message.text]
          /\ effects' = effects \o << [op |-> "WriteString", arg |-> message.text],
                                     [op |-> "Println", arg |-> <<"<Error>">>] >>
          /\ mainPc' = "exit1"
       \/ /\ tempFile' = [exists |-> TRUE, content |-> message.text]
          /\ effects' = Append(effects, [op |-> "WriteString", arg |-> message.text])
          /\ mainPc' = "edit"
    /\ UNCHANGED <<service, flags, fs, tried, configFile, config>>
    /\ UNCHANGED callVars

\* a plausible slip: the error of the editor is not acted on
EditorFailed_Ignored(f) == "publish"

\* where main is after openInVim returned an error: it exits
EditorFailed(f) == "exit1"

\* openInVim(tempFile): the editor fails, or the user leaves the message or
\* changes it
main_Edit ==
    /\ mainPc = "edit"
    /\ \/ /\ effects' = effects \o << [op |-> "openInVim", arg |-> <<>>],
                                     [op |-> "Println", arg |-> <<"<Error>">>] >>
          /\ mainPc' = EditorFailed(flags)
          /\ UNCHANGED tempFile
       \/ /\ effects' = Append(effects, [op |-> "openInVim", arg |-> <<>>])
          /\ \E edited \in {tempFile.content, <<"e">>} :
                tempFile' = [exists |-> TRUE, content |-> edited]
          /\ mainPc' = "publish"
    /\ UNCHANGED <<service, flags, fs, tried, configFile, config>>
    /\ UNCHANGED callVars

\* the commit, the amend, the creation of the pull request or the report of
\* the saved file, and the return of main with its deferred removal
main_Publish ==
    /\ mainPc = "publish"
    /\ \/ /\ PublishCall(flags) # "Printf saved to"
          /\ effects' = effects \o << [op |-> PublishCall(flags), arg |-> tempFile.content],
                                     [op |-> "Println", arg |-> <<"<Error>">>] >>
          /\ mainPc' = "exit1"
          /\ UNCHANGED tempFile
       \/ /\ mainPc' = "exit0"
          /\ IF RemovalDeferred(flags)
             THEN /\ effects' = effects \o << [op |-> PublishCall(flags), arg |-> tempFile.content],
                                             [op |-> "os.Remove", arg |-> <<>>] >>
                  /\ tempFile' = NoTempFile
             ELSE /\ effects' = Append(effects, [op |-> PublishCall(flags), arg |-> tempFile.content])
                  /\ UNCHANGED tempFile
    /\ UNCHANGED <<service, flags, fs, tried, configFile, config>>
    /\ UNCHANGED callVars

NextMain ==
    \/ main_GetInput
    \/ createCommitMessage_Begin
    \/ createPRMessage_Begin
    \/ GenerateCommitMessage_NoKey
    \/ GeneratePRMessage_NoKey
    \/ GenerateCommitMessage
    \/ GeneratePRMessage_RoundOne
    \/ askUserQuestions
    \/ GeneratePRMessage_RoundTwo
    \/ createCommitMessage_End
    \/ createPRMessage_End
    \/ main_GenerateFailed
    \/ main_DryRun
    \/ main_CreateTemp
    \/ main_WriteTemp
    \/ main_Edit
    \/ main_Publish

SpecMain == InitMain /\ [][NextMain]_vars

(***************************************************************************)
(* createPRMessage called alone, every completion call and every console   *)
(* read returning: each step that can be taken is taken.                   *)
(***************************************************************************)
InitPR ==
    /\ mode = "pr"
    /\ input \in CommitLogs
    /\ llmConfig \in Configs
    /\ firstLineLimit \in Limits
    /\ pc = "create"
    /\ NothingGenerated
    /\ service = "drafts"
    /\ flags = NoFlags
    /\ fs = NoFileSystem
    /\ tried = <<>>
    /\ configFile = NoConfigFile
    /\ config = NoConfig
    /\ mainPc = "none"
    /\ tempFile = NoTempFile
    /\ effects = <<>>

NextPR ==
    \/ createPRMessage_Begin
    \/ GeneratePRMessage_NoKey
    \/ GeneratePRMessage_RoundOne
    \/ askUserQuestions
    \/ GeneratePRMessage_RoundTwo
    \/ createPRMessage_End

SpecPR == InitPR /\ [][NextPR]_vars /\ WF_vars(NextPR)

(***************************************************************************)
(* Properties.                                                             *)
(***************************************************************************)
\* GeneratePRMessage or GenerateCommitMessage has returned
Returned == pc \in {"returned", "done"}

\* askUserQuestions has returned
Interacted == pc \in {"round2", "returned", "done"} /\ prompts > 0

\* the positions of the questions that hold a non-empty answer
AnsweredSet == {k \in 1..Len(questionResponses) : questionResponses[k].Answer # <<>>}

\* the n-th answered question, in question order
NthAnswered(n) ==
    questionResponses[CHOOSE k \in AnsweredSet : Cardinality({j \in AnsweredSet : j <= k}) = n]

\* the console read is the sentinel "skip all" in some letter case
SentinelRead(rd) == ToLower(TrimSpace(rd.data)) = SkipAll

\* where the payload that extractQuestions detects lies in the draft: the
\* whole text when it parses as a whole, else the embedded match
DetectedPayload(draft) ==
    LET whole == UnmarshalQuestions(draft)
    IN  IF ~whole.err /\ Len(whole.Questions) > 0
        THEN [start |-> 0, end |-> Len(draft)]
        ELSE FindQuestionsLoc(draft)

\* the draft with the detected payload removed
DraftWithoutPayload(draft) ==
    LET loc == DetectedPayload(draft)
        pre == TrimSpace(Slice(draft, 0, loc.start))
        post == TrimSpace(Slice(draft, loc.end, Len(draft)))
    IN  IF pre # <<>> /\ post # <<>> THEN pre \o <<"\n", "\n">> \o post
        ELSE IF pre # <<>> THEN pre
        ELSE post

\* the step in which GeneratePRMessage returns with no question answered
ZeroAnsweredReturn == pc = "ask" /\ pc' = "returned"

\* C1: questions detected and enabled, the human was asked and no question
\* holds an answer: no second request, exactly one completion call.
C1_NoSecondCallWhenNoneAnswered ==
    (mode = "pr" /\ Interacted /\ AnsweredSet = {})
        => (pc # "round2" /\ Len(requests) = 1 /\ llmConfig.EnableQuestions)

C1_Witness ==
    /\ pc = "done"
    /\ prompts = 3
    /\ AnsweredSet = {}
    /\ Len(requests) = 1
    /\ message.err = Nil

\* C2: with an answered question there are two completion calls once
\* GeneratePRMessage has returned, and the second message list holds, between
\* its three opening messages and its closing one, the question as an
\* assistant turn and the answer as a user turn for each answered question,
\* in question order, and nothing of an unanswered question.
C2_SecondCallHoldsAnsweredTurns ==
    /\ (mode = "pr" /\ Returned /\ prompts > 0 /\ AnsweredSet # {}) => Len(requests) = 2
    /\ Len(requests) = 2 =>
         LET msgs  == requests[2]
             turns == SubSeq(msgs, 4, Len(msgs) - 1)
         IN  /\ AnsweredSet # {}
             /\ Len(turns) = 2 * Cardinality(AnsweredSet)
             /\ \A n \in 1..Cardinality(AnsweredSet) :
                  /\ turns[2 * n - 1] = [Role |-> "assistant", Content |-> NthAnswered(n).Question]
                  /\ turns[2 * n] = [Role |-> "user", Content |-> NthAnswered(n).Answer]
             /\ \A k \in (1..Len(questionResponses)) \ AnsweredSet :
                  \A m \in 1..Len(msgs) : msgs[m].Content # questionResponses[k].Question

C2_Witness ==
    /\ pc = "done"
    /\ Len(requests) = 2
    /\ Len(questionResponses) = 3
    /\ AnsweredSet = {1, 3}
    /\ message.err = Nil

\* C3: when GeneratePRMessage returns with no question answered, the outcome
\* is the draft with the detected payload removed: the trimmed text before
\* and after it, joined by a blank line when both are non-empty.
C3_OutcomeIsDraftWithoutPayload ==
    [][ZeroAnsweredReturn => result'.text = DraftWithoutPayload(response)]_vars

\* C4: when no question was answered and the draft holds text that is not
\* whitespace outside the payload, the outcome is not blank.
C4_OutcomeNotBlank ==
    [][(ZeroAnsweredReturn /\ DraftWithoutPayload(response) # <<>>)
          => result'.text # <<>>]_vars

\* C5: when the sentinel is entered at a question, the earlier questions keep
\* their answers and that question and every later one end with an empty
\* answer.
C5_SkipAllBlanksFromThere ==
    [][(pc = "ask" /\ prompts' = prompts + 1 /\ SentinelRead(lastRead'))
          => /\ \A k \in 1..prompts : questionResponses'[k] = questionResponses[k]
             /\ \A k \in prompts'..Len(questionResponses) :
                  questionResponses'[k].Answer = <<>>]_vars

\* C6: with questions disabled the human is never asked and no second
\* request is made; a successful round one is returned trimmed and otherwise
\* as it is, payload included.
C6_DisabledIgnoresQuestions ==
    (mode = "pr" /\ ~llmConfig.EnableQuestions)
        => /\ pc \notin {"ask", "round2"}
           /\ prompts = 0
           /\ Len(requests) <= 1
           /\ (Returned /\ Len(requests) = 1 /\ failures = 0)
                 => result = [text |-> TrimSpace(response), err |-> Nil]

C6_Witness ==
    /\ mode = "pr"
    /\ ~llmConfig.EnableQuestions
    /\ pc = "done"
    /\ Len(questionResponses) = 2
    /\ response = <<"x">> \o Payload(CompactShape, 2) \o <<" ">>
    /\ result.text = <<"x">> \o Payload(CompactShape, 2)
    /\ Len(requests) = 1

\* C7: with an empty diff or commit log the invocation ends with the
\* precondition error, and the template file is never read, the credential
\* never tested and no request sent.
C7_EmptyInputFailsFirst ==
    input = <<>>
        => /\ templateReads = 0
           /\ credentialChecks = 0
           /\ Len(requests) = 0
           /\ pc \in {"create", "done"}
           /\ pc = "done" =>
                /\ message.text = <<>>
                /\ message.err = IF mode = "commit" THEN "no changes staged"
                                 ELSE "no commits found between branches"

C7_Witness ==
    /\ input = <<>>
    /\ pc = "done"
    /\ mode = "pr"
    /\ llmConfig.APIKey = <<>>
    /\ message.err = "no commits found between branches"

\* C8: once a completion request has failed, GeneratePRMessage has returned
\* an error with an empty text, the caller's message is empty too, and the
\* failed request is the last one sent.
C8_FailureGivesNoText ==
    (mode = "pr" /\ failures > 0)
        => /\ Returned
           /\ result.text = <<>>
           /\ result.err # Nil
           /\ pc = "done" => (message.text = <<>> /\ message.err # Nil)

C8_Witness ==
    /\ mode = "pr"
    /\ failures = 1
    /\ Len(requests) = 2
    /\ pc = "done"
    /\ result.err = "API error: overloaded"

\* C9: without a credential no request is ever sent, and Generate*Message
\* returns the credential error.
C9_NoCredentialNoRequest ==
    llmConfig.APIKey = <<>>
        => /\ Len(requests) = 0
           /\ (Returned /\ credentialChecks > 0)
                 => result = [text |-> <<>>, err |-> "OpenAI API key not found"]

C9_Witness ==
    /\ llmConfig.APIKey = <<>>
    /\ pc = "done"
    /\ credentialChecks = 1
    /\ Len(requests) = 0
    /\ message.err = "LLM generation failed"

\* C10: at most two requests for a pull request and one for a commit; no
\* request is sent twice and a failed request is followed by no other.
C10_BoundedSingleAttempts ==
    /\ Len(requests) <= (IF mode = "pr" THEN 2 ELSE 1)
    /\ failures <= 1
    /\ failures = 1 => pc \notin {"generate", "ask", "round2"}
    /\ \A a, b \in 1..Len(requests) : a # b => requests[a] # requests[b]

C10_Witness ==
    /\ Len(requests) = 2
    /\ failures = 1
    /\ pc = "done"

\* the first request has succeeded and response still holds the draft that
\* extractQuestions was applied to
FreshDraft ==
    /\ mode = "pr"
    /\ Len(requests) = 1
    /\ failures = 0
    /\ prompts = 0
    /\ pc \in {"ask", "returned"}

\* the ways the draft is made of prose, a payload of n questions in a
\* layout, and prose
PayloadDrafts(draft) ==
    {d \in [pre : Pads, sh : Shapes, n : 0..MaxPayloadQuestions, post : Pads] :
        d.pre \o Payload(d.sh, d.n) \o d.post = draft}

\* the first three at most of the n questions of a payload, unanswered
FirstQuestions(n) ==
    [k \in 1..(IF n > 3 THEN 3 ELSE n) |-> [Question |-> QuestionText(k), Answer |-> <<>>]]

\* C11: extractQuestions never yields more than 3 questions; what it yields
\* from a payload of n questions is the first min(n, 3) of them in payload
\* order with empty answers, and every payload of more than 3 questions is
\* reported as detected with exactly the first 3, never as not detected.
C11_AtMostThreeQuestionsKept ==
    /\ Len(questionResponses) <= 3
    /\ FreshDraft =>
         \A d \in PayloadDrafts(response) :
            /\ questionResponses # <<>> => questionResponses = FirstQuestions(d.n)
            /\ d.n > 3 =>
                  /\ questionResponses = FirstQuestions(3)
                  /\ llmConfig.EnableQuestions => pc = "ask"

\* C12: a response that holds the one object {"questions":["A","B"]} with
\* prose before it, after it or on both sides is detected, and the questions
\* are A and B in this order with empty answers.
C12_EmbeddedPayloadDetected ==
    FreshDraft =>
        \A pre \in Pads, post \in Pads :
            response = pre \o Payload(CompactShape, 2) \o post =>
                /\ questionResponses = << [Question |-> <<"A">>, Answer |-> <<>>],
                                          [Question |-> <<"B">>, Answer |-> <<>>] >>
                /\ llmConfig.EnableQuestions => pc = "ask"

C12_Witness ==
    /\ pc = "ask"
    /\ prompts = 0
    /\ response = <<"x">> \o Payload(CompactShape, 2) \o <<"x">>
    /\ Len(questionResponses) = 2
    /\ questionResponses[2].Question = <<"B">>

\* a text without whitespace at its ends
Trimmed(s) == s = <<>> \/ (~IsSpace(s[1]) /\ ~IsSpace(s[Len(s)]))

\* C13 as claimed: the pull-request description that createPRMessage returns
\* has no whitespace at its ends, whatever the text and the limit.
C13_FinalDescriptionTrimmed ==
    (mode = "pr" /\ pc = "done" /\ message.err = Nil) => Trimmed(message.text)

\* C13 amended: the text GeneratePRMessage returns has no whitespace at its
\* ends; the description createPRMessage returns never starts with
\* whitespace, and ends with whitespace only when it is one line cut at a
\* positive limit.
C13_TrimmedUnlessFirstLineCut ==
    /\ (mode = "pr" /\ Returned /\ result.err = Nil) => Trimmed(result.text)
    /\ (mode = "pr" /\ pc = "done" /\ message.err = Nil) =>
         /\ message.text # <<>> => ~IsSpace(message.text[1])
         /\ ~Trimmed(message.text) =>
              /\ firstLineLimit > 0
              /\ Len(result.text) > firstLineLimit
              /\ message.text = SubSeq(result.text, 1, firstLineLimit)
              /\ \A k \in 1..Len(result.text) : result.text[k] # "\n"

C13_Witness ==
    /\ mode = "pr"
    /\ pc = "done"
    /\ firstLineLimit = 2
    /\ result = [text |-> <<"x", " ", "x">>, err |-> Nil]
    /\ message = [text |-> <<"x", " ">>, err |-> Nil]

\* C16: once the second request is made GeneratePRMessage has returned: its
\* outcome is the second text trimmed, also when that text holds a payload;
\* from then on nothing is asked, no request is sent and the question list,
\* the text and the outcome stay as they are.
C16_RoundTwoIsFinal ==
    /\ [](Len(requests) = 2 =>
            /\ pc \in {"returned", "done"}
            /\ failures = 0 => result = [text |-> TrimSpace(response), err |-> Nil])
    /\ [][Len(requests) = 2 =>
            /\ pc' = "done"
            /\ UNCHANGED <<requests, prompts, lastRead, questionResponses, response, result>>]_vars

C16_Witness ==
    /\ pc = "done"
    /\ Len(requests) = 2
    /\ response = Payload(CompactShape, 1)
    /\ result = [text |-> Payload(CompactShape, 1), err |-> Nil]
    /\ message.err = Nil
    /\ prompts = Len(questionResponses)

\* sub occurs in s as it is
Contains(s, sub) ==
    \E k \in 0..(Len(s) - Len(sub)) : SubSeq(s, k + 1, k + Len(sub)) = sub

\* C20: the completion request for a commit message is the only one, is made
\* for a non-empty diff only, and has exactly two messages: the system
\* message holds the template file's content as it is and the user message
\* holds the diff as it is.
C20_CommitRequestIsTemplateAndDiff ==
    mode = "commit" =>
        /\ Len(requests) <= 1
        /\ input = <<>> => requests = <<>>
        /\ Len(requests) = 1 =>
             /\ Len(requests[1]) = 2
             /\ requests[1][1].Role = "system"
             /\ Contains(requests[1][1].Content, template)
             /\ requests[1][2].Role = "user"
             /\ Contains(requests[1][2].Content, input)
             /\ input # <<>>

C20_Witness ==
    /\ mode = "commit"
    /\ pc = "done"
    /\ Len(requests) = 1
    /\ template = <<"T", "\n", "U">>
    /\ input = <<"d", "\n", "e">>
    /\ message.err = Nil

\* a completion request of GeneratePRMessage has just returned: response
\* and result are as that request left them
JustRequested ==
    /\ mode = "pr"
    /\ exchange.stage # "none"
    /\ pc \in {"ask", "returned"}
    /\ Len(requests) = 2 \/ prompts = 0

\* C17: the outcome of a completion request is decided in the order send,
\* read, parse, error payload, candidates: an error payload gives the API
\* error with the service's message also when candidates are present; no
\* error payload and no candidate gives the no-response error; otherwise the
\* text is the content of the first candidate as it is, untrimmed.
C17_FirstFailingCheckDecides ==
    JustRequested =>
        /\ exchange.stage = "send" => result = [text |-> <<>>, err |-> "failed to send request"]
        /\ exchange.stage = "read" => result = [text |-> <<>>, err |-> "failed to read response"]
        /\ exchange.stage = "unmarshal" =>
              result = [text |-> <<>>, err |-> "failed to unmarshal response"]
        /\ (exchange.stage = "decoded" /\ exchange.Error = "quota exceeded") =>
              result = [text |-> <<>>, err |-> "API error: quota exceeded"]
        /\ (exchange.stage = "decoded" /\ exchange.Error = "overloaded") =>
              result = [text |-> <<>>, err |-> "API error: overloaded"]
        /\ (exchange.stage = "decoded" /\ exchange.Error = Nil /\ exchange.Choices = <<>>) =>
              result = [text |-> <<>>, err |-> "no response from API"]
        /\ (exchange.stage = "decoded" /\ exchange.Error = Nil /\ exchange.Choices # <<>>) =>
              /\ response = exchange.Choices[1]
              /\ result.err = Nil
              /\ failures = 0
        /\ exchange.stage \in {"send", "read", "unmarshal", "decoded"}

C17_Witness ==
    /\ mode = "pr"
    /\ pc = "returned"
    /\ Len(requests) = 2
    /\ exchange = [stage |-> "decoded", Error |-> "quota exceeded", Choices |-> << <<"x">> >>]
    /\ result = [text |-> <<>>, err |-> "API error: quota exceeded"]

\* the standard locations whose path can be determined, in the documented
\* order
StandardOrder ==
    SelectSeq(<<"cwd", "home", "exec">>,
              LAMBDA l : l = "cwd" \/ (l = "home" /\ fs.home) \/ (l = "exec" /\ fs.exec))

\* C18: without -config the locations are read in the order current
\* directory, home directory, executable's directory; every location read
\* before the last one read failed to load, so nothing is read after the
\* first success; the configuration returned is that of the first location
\* that loads; an error is returned only after every location failed.
C18_FirstLoadingLocationWins ==
    (mainPc # "none" /\ flags.configPath = "") =>
        /\ Len(tried) <= Len(StandardOrder)
        /\ tried = SubSeq(StandardOrder, 1, Len(tried))
        /\ \A k \in 1..(Len(tried) - 1) : tried[k] \notin fs.loads
        /\ mainPc = "config" => \A k \in 1..Len(tried) : tried[k] \notin fs.loads
        /\ mainPc = "configured" =>
             /\ tried # <<>>
             /\ tried[Len(tried)] \in fs.loads
             /\ config.err = Nil
             /\ config.from = tried[Len(tried)]
             /\ configFile = FileAt(tried[Len(tried)])
        /\ mainPc = "exit1" =>
             /\ config.err # Nil
             /\ tried = StandardOrder
             /\ \A k \in 1..Len(tried) : tried[k] \notin fs.loads

C18_Witness ==
    /\ flags.configPath = ""
    /\ mainPc = "configured"
    /\ tried = <<"cwd", "home">>
    /\ config.from = "home"
    /\ config.FirstLineLimit = 50
    /\ "exec" \in fs.loads
    /\ fs.exec

\* the length of the first line of m: the text before the first line break
FirstLineLength(m) ==
    IF \E k \in 1..Len(m) : m[k] = "\n"
    THEN Min({k \in 1..Len(m) : m[k] = "\n"}) - 1
    ELSE Len(m)

\* create*Message has returned a message under main
MessageCreated == mainPc # "none" /\ pc = "done" /\ message.err = Nil

\* C14: with a positive limit, a first line longer than the limit is cut to
\* exactly its first limit characters while everything from the first line
\* break on stays as it is; a first line within the limit leaves the message
\* unchanged.
C14_OnlyFirstLineShortened ==
    (MessageCreated /\ firstLineLimit > 0) =>
        LET m   == result.text
            out == message.text
            f   == FirstLineLength(m)
            n   == firstLineLimit
        IN  /\ f > n =>
                 /\ FirstLineLength(out) = n
                 /\ SubSeq(out, 1, n) = SubSeq(m, 1, n)
                 /\ SubSeq(out, n + 1, Len(out)) = SubSeq(m, f + 1, Len(m))
            /\ f <= n => out = m

C14_Witness ==
    /\ MessageCreated
    /\ firstLineLimit = 2
    /\ result.text = <<"x", "x", "x", "\n", "x">>
    /\ message.text = <<"x", "x", "\n", "x">>

\* the configuration file gives no first-line limit, or gives 0
LimitUnset == ~configFile.hasLimit \/ configFile.first_line_limit = 0

\* C15 as claimed: with a limit of 0 or less in the configuration file, or
\* none, the message is the trimmed model text with its first line
\* unshortened.
C15_NonPositiveLimitDisables ==
    (MessageCreated /\ (LimitUnset \/ configFile.first_line_limit < 0))
        => message.text = result.text

\* C15 amended: a negative limit in the configuration file disables the
\* truncation; a limit of 0, or none, is loaded as 72, so that a first line
\* longer than 72 is cut to 72 and a shorter one is left alone.
C15_NegativeDisablesZeroMeans72 ==
    MessageCreated =>
        /\ (configFile.hasLimit /\ configFile.first_line_limit < 0) => message.text = result.text
        /\ LimitUnset =>
             /\ config.FirstLineLimit = 72
             /\ FirstLineLength(message.text) = (IF FirstLineLength(result.text) > 72 THEN 72
                                                 ELSE FirstLineLength(result.text))
             /\ FirstLineLength(result.text) <= 72 => message.text = result.text
             /\ Len(result.text) - Len(message.text)
                    = FirstLineLength(result.text) - FirstLineLength(message.text)

C15_Witness ==
    /\ MessageCreated
    /\ ~configFile.hasLimit
    /\ FirstLineLength(result.text) = 73
    /\ FirstLineLength(message.text) = 72
    /\ Len(message.text) = 75

\* what main has called so far
Called == {effects[k].op : k \in 1..Len(effects)}

\* C19: with -dry-run main goes from the generated message to its exit by
\* printing it: no temporary file is created, no editor opened, and nothing
\* is committed, amended or created, for a commit and for a pull request.
C19_DryRunOnlyPrints ==
    (mainPc # "none" /\ flags.dryRun) =>
        /\ ~tempFile.exists
        /\ Called \subseteq {"Println"}
        /\ mainPc \in {"configured", "generate", "exit0", "exit1"}
        /\ mainPc = "exit0" =>
             /\ message.err = Nil
             /\ effects = << [op |-> "Println", arg |-> message.text] >>
        /\ (mainPc = "exit1" /\ pc = "done") => message.err # Nil

C19_Witness ==
    /\ flags.dryRun
    /\ flags.pr
    /\ ~flags.skipCreate
    /\ mainPc = "exit0"
    /\ Len(requests) = 2
    /\ effects = << [op |-> "Println", arg |-> <<"x", " ", "x">>] >>

\* C21: the message list of the second request is the whole history: its
\* first two messages are the system and user messages of the first request,
\* the third is the fixed assistant turn, the last is the fixed user
\* instruction, there are two messages for each answered question in
\* between, and every role is system, user or assistant.
C21_RoundTwoIsFullHistory ==
    Len(requests) = 2 =>
        LET one == requests[1]
            two == requests[2]
        IN  /\ Len(one) = 2
            /\ Len(two) = 4 + 2 * Cardinality(AnsweredSet)
            /\ two[1] = one[1]
            /\ two[2] = one[2]
            /\ one[1].Role = "system"
            /\ one[2].Role = "user"
            /\ two[3] = [Role |-> "assistant", Content |-> <<"<I need some additional information>">>]
            /\ two[Len(two)] = [Role |-> "user",
                                Content |-> <<"<Now that you have this additional information>">>]
            /\ \A k \in 1..Cardinality(AnsweredSet) :
                  /\ two[2 + 2 * k].Role = "assistant"
                  /\ two[3 + 2 * k].Role = "user"
            /\ \A k \in 1..Len(two) : two[k].Role \in {"system", "user", "assistant"}

C21_Witness ==
    /\ Len(requests) = 2
    /\ Len(requests[2]) = 8
    /\ Len(questionResponses) = 3
    /\ questionResponses[2].Answer = <<>>
    /\ requests[2][2].Content = <<"<Here are the commit messages from the branch:>", "d">>
    /\ pc = "done"

\* the last completion request gave a text
GotText ==
    /\ exchange.stage = "decoded"
    /\ exchange.Error = Nil
    /\ exchange.Choices # <<>>

\* the parts of draft from an opening to a closing brace
BracedParts(draft) ==
    {Slice(draft, a, b + 1) : a \in {k \in 0..(Len(draft) - 1) : At(draft, k) = "{"},
                              b \in {k \in 0..(Len(draft) - 1) : At(draft, k) = "}"}}

\* neither the draft nor an object inside it parses into a questions array
\* with an element
NoQuestionsObject(draft) ==
    \A part \in BracedParts(draft) \cup {draft} :
        UnmarshalQuestions(part).err \/ Len(UnmarshalQuestions(part).Questions) = 0

\* C22: when the text of round one holds no object that parses into a
\* non-empty questions array, no questions are detected: GeneratePRMessage
\* returns the trimmed draft after its single request, and the human is
\* never asked.
C22_NoQuestionsGoesToFinal ==
    /\ prompts > 0 => questionResponses # <<>>
    /\ (mode = "pr" /\ prompts = 0 /\ GotText /\ NoQuestionsObject(exchange.Choices[1])) =>
          /\ pc \in {"returned", "done"}
          /\ Len(requests) = 1
          /\ questionResponses = <<>>
          /\ result = [text |-> TrimSpace(exchange.Choices[1]), err |-> Nil]

C22_Witness ==
    /\ mode = "pr"
    /\ llmConfig.EnableQuestions
    /\ pc = "done"
    /\ Len(requests) = 1
    /\ exchange.Choices = << <<" ">> \o Payload(CompactShape, 0) >>
    /\ result.text = Payload(CompactShape, 0)
    /\ prompts = 0

\* C23: a well-formed questions object inside prose is detected whatever
\* whitespace and line breaks lie inside it, also between the elements of
\* its array.
C23_NewlinesInsideTolerated ==
    FreshDraft =>
        \A d \in PayloadDrafts(response) :
            d.n > 0 => /\ questionResponses = FirstQuestions(d.n)
                       /\ llmConfig.EnableQuestions => pc = "ask"

\* C24: at most 3 questions are presented, one at a time and in the order of
\* extraction: the n-th prompt is for the n-th question, whose text and the
\* entries before it stay as they are; every prompt comes after a successful
\* first request and before any second one, and none after the sentinel was
\* entered.
C24_PromptsOrderedAndBounded ==
    /\ [](/\ prompts <= Len(questionResponses)
          /\ Len(questionResponses) <= 3
          /\ prompts > 0 => Len(requests) >= 1)
    /\ [][prompts' # prompts =>
            /\ prompts' = prompts + 1
            /\ prompts' <= Len(questionResponses)
            /\ Len(requests) = 1
            /\ requests' = requests
            /\ failures = 0
            /\ ~(prompts > 0 /\ SentinelRead(lastRead))
            /\ Len(questionResponses') = Len(questionResponses)
            /\ \A k \in 1..Len(questionResponses) :
                  questionResponses'[k].Question = questionResponses[k].Question
            /\ \A k \in 1..prompts : questionResponses'[k] = questionResponses[k]]_vars

C24_Witness ==
    /\ pc = "done"
    /\ Len(questionResponses) = 3
    /\ prompts = 2
    /\ SentinelRead(lastRead)
    /\ questionResponses[1].Answer = <<"y">>
    /\ Len(requests) = 2

\* C25: when the read of the answer to a question fails, also after part of
\* a line was received, that question ends with an empty answer, nothing
\* fails, and the next question, if there is one, is presented.
C25_FailedReadIsEmptyAnswer ==
    (prompts > 0 /\ lastRead.err) =>
        /\ questionResponses[prompts].Answer = <<>>
        /\ failures = 0 \/ Len(requests) = 2
        /\ prompts < Len(questionResponses) => pc = "ask"

\* the sentinel was entered at the last question presented and every
\* question before it was given an empty answer
OnlySentinelEntered ==
    /\ prompts > 0
    /\ SentinelRead(lastRead)
    /\ \A k \in 1..(prompts - 1) : questionResponses[k].Answer = <<>>

\* C26: when the sentinel is the only non-empty line entered, no question
\* counts as answered: no second request is made and no request holds the
\* sentinel as a user turn.
C26_SentinelIsNotAnAnswer ==
    OnlySentinelEntered =>
        /\ pc # "round2"
        /\ Len(requests) = 1
        /\ AnsweredSet = {}
        /\ \A r \in 1..Len(requests) : \A m \in 1..Len(requests[r]) :
              ~(requests[r][m].Role = "user" /\ ToLower(requests[r][m].Content) = SkipAll)

\* C27: with -config only the custom path is read: when it loads, its
\* configuration is returned; when it does not, an error is returned; in
\* both cases no standard location is read.
C27_CustomPathOnly ==
    (mainPc # "none" /\ flags.configPath # "") =>
        /\ tried \in {<<>>, <<"custom">>}
        /\ tried = <<>> => mainPc = "config"
        /\ (tried = <<"custom">> /\ "custom" \in fs.loads) =>
              /\ mainPc = "configured"
              /\ config.err = Nil
              /\ config.from = "custom"
              /\ configFile = FileAt("custom")
        /\ (tried = <<"custom">> /\ "custom" \notin fs.loads) =>
              /\ mainPc = "exit1"
              /\ config.err = "failed to load config from specified path"
              /\ config.from = ""

C27_Witness ==
    /\ flags.configPath = "custom"
    /\ tried = <<"custom">>
    /\ mainPc = "exit1"
    /\ config.err # Nil
    /\ fs.loads = {"cwd", "home", "exec"}
    /\ fs.home
    /\ fs.exec

\* the calls that commit, amend or create the pull request
Publishers == {"commitChanges", "amendCommitWithMessage", "createPullRequest"}

\* C28: a commit, an amend or the creation of a pull request is called at
\* most once, never with -dry-run, and only right after the editor returned
\* without error on the temporary file the generated message was written
\* to; when the generation, the writing or the editor fails, none is called.
C28_PublishOnlyAfterEdit ==
    mainPc # "none" =>
        /\ Cardinality({k \in 1..Len(effects) : effects[k].op \in Publishers}) <= 1
        /\ \A k \in 1..Len(effects) :
              effects[k].op \in Publishers =>
                 /\ k = 4
                 /\ effects[1].op = "os.Create"
                 /\ effects[2] = [op |-> "WriteString", arg |-> message.text]
                 /\ effects[3].op = "openInVim"
                 /\ message.err = Nil
                 /\ pc = "done"
                 /\ ~flags.dryRun
                 /\ mainPc \in {"exit0", "exit1"}
        /\ (pc = "done" /\ message.err # Nil) => Called \cap Publishers = {}
        /\ mainPc \in {"write", "edit"} => Called \cap Publishers = {}

C28_Witness ==
    /\ mainPc = "exit0"
    /\ flags.amend
    /\ ~flags.pr
    /\ Len(effects) = 5
    /\ effects[4] = [op |-> "amendCommitWithMessage", arg |-> <<"e">>]
    /\ effects[5].op = "os.Remove"

\* C29: when main has reported the saved file of a pull request message and
\* has returned, the temporary file exists and holds that message.
C29_SavedFileIsKept ==
    (mainPc = "exit0" /\ "Printf saved to" \in Called) =>
        /\ tempFile.exists
        /\ \E k \in 1..Len(effects) :
              /\ effects[k].op = "Printf saved to"
              /\ tempFile.content = effects[k].arg

\* the brace-matching scan of extractPRDescription on resp stops with no
\* end or with an end inside resp
ScanStops(resp) ==
    LET startIdx == Index(resp, QuestionsPrefix)
    IN  startIdx # -1 =>
           BraceScan(resp, startIdx, 0) \in {-1} \cup startIdx..(Len(resp) - 1)

\* a draft with the opening of a payload whose brace is never closed
Unclosed(resp) ==
    /\ Index(resp, QuestionsPrefix) # -1
    /\ BraceScan(resp, Index(resp, QuestionsPrefix), 0) = -1

\* C30: every call of GeneratePRMessage returns, with a description or with
\* a failure, after at most two completion calls and at most three console
\* reads; the brace scan of extractPRDescription stops on every draft, and a
\* draft whose payload is never closed is returned as it is.
C30_GeneratePRMessageTerminates ==
    /\ (pc = "generate") ~>
          (pc = "returned" /\ (Len(requests) >= 1 \/ result.err = "OpenAI API key not found"))
    /\ [](/\ Len(requests) <= 2
          /\ prompts <= 3
          /\ ScanStops(response)
          /\ (pc = "returned" /\ prompts > 0 /\ Len(requests) = 1 /\ Unclosed(response))
                => result = [text |-> TrimSpace(response), err |-> Nil])

C30_Witness ==
    /\ pc = "returned"
    /\ Len(requests) = 2
    /\ prompts = 3
    /\ result.err = Nil

====
